---- MODULE Spec2Model ----
(***************************************************************************)
(* Model of src/source/library.cpp: the executor extension library.        *)
(*                                                                         *)
(*  - the script-visible file functions readfile / writefile and the       *)
(*    workspace directory they work in (specification SpecFile);           *)
(*  - the load lifecycle luaopen_mylibrary: ensure workspace, register     *)
(*    functions, run the bootstrap chunk, hook the returned handler        *)
(*    (specification Spec).                                                *)
(*                                                                         *)
(* A byte is a one-character string, "NUL" is the zero byte.  A byte       *)
(* string is a sequence of bytes.  A Lua value is a record [t, s, n]:      *)
(* its type tag, its bytes (strings) and its number (numbers, and the      *)
(* identity of functions).                                                 *)
(***************************************************************************)
EXTENDS Naturals, Sequences, FiniteSets, TLC

VARIABLES
    wsKind,       \* what ./workspace is on disk: "absent", "dir" or "file"
    files,        \* regular files: resolved path -> content (byte string)
    lastCall,     \* the last script-side call of a registered function
    pc,           \* position inside luaopen_mylibrary, "idle" outside it
    stack,        \* the interpreter's value stack: stack[1] is the slot just
                  \* below the frame (the function being called), the frame
                  \* of luaopen_mylibrary is above it
    entryDepth,   \* Len(stack) on entry to luaopen_mylibrary
    globals,      \* names registered in the interpreter's global table
    registry,     \* the interpreter's reference table: key -> value
    functionRef,  \* the local of hookPlayerAddedEvent: the set holding its
                  \* value, empty once the storage of the call is gone
    boot,         \* the bootstrap chunk being run: its outcome when executed
    execOk,       \* what executeMainLuau returned in the current load
    events,       \* the steps of the current load, in order
    loads         \* number of completed loads into this interpreter state

vars == <<wsKind, files, lastCall, pc, stack, entryDepth, globals, registry,
          functionRef, boot, execOk, events, loads>>

fsVars == <<wsKind, files>>
loadVars == <<pc, stack, entryDepth, globals, registry, functionRef, boot,
              execOk, events, loads>>

-----------------------------------------------------------------------------
(* Bounds *)

MaxLen == 2        \* longest content string handed to writefile
MaxLoads == 2      \* loads of the library into the same interpreter state
MaxEntry == 1      \* values on the stack when the host calls luaopen
MaxRets == 2       \* values the bootstrap chunk returns
MaxCalls == 3      \* calls of ensureWorkspaceDirectory in a row

-----------------------------------------------------------------------------
(* Byte strings and C strings *)

NUL == "NUL"
SEP == "/"
DOT == "."

RECURSIVE CStr(_)
\* What a const char* consumer (strlen, operator<<, std::string(const char*),
\* lua_pushstring) sees of a byte string: the bytes before the first zero byte.
CStr(s) ==
    IF s = <<>> THEN <<>>
    ELSE IF Head(s) = NUL THEN <<>>
    ELSE <<Head(s)>> \o CStr(Tail(s))

Prefixes(s) == { SubSeq(s, 1, n) : n \in 0..Len(s) }

RECURSIVE StringsUpTo(_, _)
StringsUpTo(alphabet, n) ==
    IF n = 0 THEN { <<>> }
    ELSE LET shorter == StringsUpTo(alphabet, n - 1)
         IN  shorter \cup { <<b>> \o s : b \in alphabet,
                                          s \in { t \in shorter : Len(t) = n - 1 } }

Digit(d) == <<"0", "1", "2", "3", "4", "5", "6", "7", "8", "9">>[d + 1]

RECURSIVE NumToStr(_)
\* lua_tostring on a number: its decimal text
NumToStr(n) ==
    IF n < 10 THEN <<Digit(n)>>
    ELSE NumToStr(n \div 10) \o <<Digit(n % 10)>>

-----------------------------------------------------------------------------
(* Lua values *)

LNil == [t |-> "nil", s |-> <<>>, n |-> 0]
LBool(b) == [t |-> "boolean", s |-> <<>>, n |-> IF b THEN 1 ELSE 0]
LNum(k) == [t |-> "number", s |-> <<>>, n |-> k]
LStr(bytes) == [t |-> "string", s |-> bytes, n |-> 0]
LTable == [t |-> "table", s |-> <<>>, n |-> 0]
LFun(id) == [t |-> "function", s |-> <<>>, n |-> id]

\* lua_pushstring(L, p): copies the C string at p
lua_pushstring(bytes) == LStr(CStr(bytes))

\* The value at a positive stack index; an index above the top reads as nil
ValueAt(stk, i) == IF i >= 1 /\ i <= Len(stk) THEN stk[i] ELSE LNil

\* lua_tostring(L, i): a pointer to the bytes of a string, the decimal text of
\* a number, and NULL for every other type
lua_tostring(v) ==
    IF v.t = "string" THEN [null |-> FALSE, s |-> v.s]
    ELSE IF v.t = "number" THEN [null |-> FALSE, s |-> NumToStr(v.n)]
    ELSE [null |-> TRUE, s |-> <<>>]

lua_isfunction(v) == v.t = "function"

\* The values a C function hands back: the top n values of its stack
TopN(stk, n) ==
    IF n >= Len(stk) THEN stk ELSE SubSeq(stk, Len(stk) - n + 1, Len(stk))

-----------------------------------------------------------------------------
(* The filesystem: paths relative to the process's working directory *)

WorkspaceName == <<"w", "o", "r", "k", "s", "p", "a", "c", "e">>
DotDot == <<DOT, DOT>>

RECURSIVE SplitFrom(_, _, _)
\* done: the components already closed by a separator; cur: the one being read
SplitFrom(s, done, cur) ==
    IF s = <<>> THEN Append(done, cur)
    ELSE IF Head(s) = SEP THEN SplitFrom(Tail(s), Append(done, cur), <<>>)
    ELSE SplitFrom(Tail(s), done, Append(cur, Head(s)))

\* The components of a path, split at every separator
Split(s) == SplitFrom(s, <<>>, <<>>)

\* A resolved path is a sequence of components below the working directory;
\* leading DotDot components stand for its ancestors.
Parent(cur) ==
    IF cur = <<>> \/ cur[Len(cur)] = DotDot THEN cur \o <<DotDot>>
    ELSE SubSeq(cur, 1, Len(cur) - 1)

IsDir(p, kind) ==
    \/ p = <<>>
    \/ p = <<WorkspaceName>> /\ kind = "dir"
    \/ \A i \in 1..Len(p) : p[i] = DotDot

RECURSIVE Walk(_, _, _)
\* The kernel's path resolution from directory cur: ok is FALSE when a
\* component that must be a directory is not one.
Walk(cur, comps, kind) ==
    IF comps = <<>> THEN [ok |-> TRUE, isDir |-> TRUE, path |-> cur]
    ELSE LET c == Head(comps)
             rest == Tail(comps)
             next == cur \o <<c>>
         IN  IF c = <<>> \/ c = <<DOT>> THEN Walk(cur, rest, kind)
             ELSE IF c = DotDot THEN Walk(Parent(cur), rest, kind)
             ELSE IF rest = <<>>
                  THEN [ok |-> TRUE, isDir |-> IsDir(next, kind), path |-> next]
             ELSE IF IsDir(next, kind) THEN Walk(next, rest, kind)
             ELSE [ok |-> FALSE, isDir |-> FALSE, path |-> next]

\* std::string fullPath = "workspace/"; fullPath += filename;
FullPath(filename) == WorkspaceName \o <<SEP>> \o CStr(filename)

\* Where fullPath.c_str() leads; the first component, workspace, must be a
\* directory for anything below or through it to resolve.
Resolve(fullPath, kind) ==
    IF kind # "dir" THEN [ok |-> FALSE, isDir |-> FALSE, path |-> <<WorkspaceName>>]
    ELSE Walk(<<>>, Split(CStr(fullPath)), kind)

Inside(p) == Len(p) >= 1 /\ p[1] = WorkspaceName

NoOpen == [any |-> FALSE, path |-> <<>>]
Opened(p) == [any |-> TRUE, path |-> p]

\* ensureWorkspaceDirectory: system("mkdir -p workspace"), its status ignored.
\* mk: whether the working directory lets the directory be created.
ensureWorkspaceDirectory(kind, mk) ==
    IF kind = "absent" /\ mk THEN "dir" ELSE kind

\* The files left when a directory tree is removed
WithoutWorkspace(fls) ==
    [p \in { q \in DOMAIN fls : ~Inside(q) } |-> fls[p]]

-----------------------------------------------------------------------------
(* readfile and the two registered functions *)

ErrNoFilename ==
    <<"N", "o", " ", "f",
       "i", "l", "e", "n", "a", "m", "e", " ", "p", "r", "o", "v", "i", "d", "e", "d">>
ErrOpenFailed ==
    <<"F", "a", "i", "l", "e", "d", " ", "t", "o", " ",
       "o", "p", "e", "n", " ", "f", "i", "l", "e">>

\* Did ensure create the directory: it was absent before and is there after
Made(kind, kind1) == kind = "absent" /\ kind1 = "dir"

\* A readfile that opens the file first and ensures the workspace afterwards
readfileOpenFirst(args, kind, fls, mk, dirOpens) ==
    LET filename == lua_tostring(ValueAt(args, 1))
        kind1 == ensureWorkspaceDirectory(kind, mk)
        r == Resolve(FullPath(filename.s), kind)
        isFile == r.ok /\ ~r.isDir /\ r.path \in DOMAIN fls
        isOpen == isFile \/ (r.ok /\ r.isDir /\ dirOpens)
        content == IF isFile THEN fls[r.path] ELSE <<>>
    IN  IF filename.null
        THEN [pushed |-> <<LNil, lua_pushstring(ErrNoFilename)>>,
              kind |-> kind, opened |-> NoOpen,
              steps |-> <<>>, made |-> FALSE]
        ELSE IF ~isOpen
        THEN [pushed |-> <<LNil, lua_pushstring(ErrOpenFailed)>>,
              kind |-> kind1, opened |-> NoOpen,
              steps |-> <<"open", "ensure">>, made |-> Made(kind, kind1)]
        ELSE [pushed |-> <<lua_pushstring(content)>>,
              kind |-> kind1, opened |-> Opened(r.path),
              steps |-> <<"open", "ensure">>, made |-> Made(kind, kind1)]

\* std::string readfile: what it pushes, what it opens, what it leaves on
\* disk and the file-system steps it takes, in order ("ensure" for
\* ensureWorkspaceDirectory, "open" for the attempt to open the file).
\* dirOpens: whether the build's ifstream opens a directory.
readfile(args, kind, fls, mk, dirOpens) ==
    LET filename == lua_tostring(ValueAt(args, 1))
        kind1 == ensureWorkspaceDirectory(kind, mk)
        r == Resolve(FullPath(filename.s), kind1)
        isFile == r.ok /\ ~r.isDir /\ r.path \in DOMAIN fls
        isOpen == isFile \/ (r.ok /\ r.isDir /\ dirOpens)
        content == IF isFile THEN fls[r.path] ELSE <<>>
    IN  IF filename.null
        THEN [pushed |-> <<LNil, lua_pushstring(ErrNoFilename)>>,
              kind |-> kind, opened |-> NoOpen,
              steps |-> <<>>, made |-> FALSE]
        ELSE IF ~isOpen
        THEN [pushed |-> <<LNil, lua_pushstring(ErrOpenFailed)>>,
              kind |-> kind1, opened |-> NoOpen,
              steps |-> <<"ensure", "open">>, made |-> Made(kind, kind1)]
        ELSE [pushed |-> <<lua_pushstring(content)>>,
              kind |-> kind1, opened |-> Opened(r.path),
              steps |-> <<"ensure", "open">>, made |-> Made(kind, kind1)]

\* The lambda registered as "readfile": readfile(L); return 1;
readfileDeclared == 1

\* A writefile that ensures the workspace before it looks at its arguments
writefileEnsureFirst(args, kind, fls, mk, openOk, written) ==
    LET filename == lua_tostring(ValueAt(args, 1))
        content == lua_tostring(ValueAt(args, 2))
        kind1 == ensureWorkspaceDirectory(ensureWorkspaceDirectory(kind, mk), mk)
        r == Resolve(FullPath(filename.s), kind1)
        isOpen == r.ok /\ ~r.isDir /\ openOk
    IN  IF filename.null \/ content.null
        THEN [pushed |-> <<LBool(FALSE)>>, declared |-> 1,
              kind |-> kind1, files |-> fls, opened |-> NoOpen,
              steps |-> <<"ensure">>, made |-> Made(kind, kind1)]
        ELSE IF ~isOpen
        THEN [pushed |-> <<LBool(FALSE)>>, declared |-> 1,
              kind |-> kind1, files |-> fls, opened |-> NoOpen,
              steps |-> <<"ensure", "mkdir", "open">>, made |-> Made(kind, kind1)]
        ELSE [pushed |-> <<LBool(TRUE)>>, declared |-> 1,
              kind |-> kind1,
              files |-> [p \in DOMAIN fls \cup {r.path} |->
                            IF p = r.path THEN written ELSE fls[p]],
              opened |-> Opened(r.path),
              steps |-> <<"ensure", "mkdir", "open">>, made |-> Made(kind, kind1)]

\* The lambda registered as "writefile".  openOk: whether the target may be
\* created or truncated; written: the bytes that reach the file (all of the
\* C string, or a prefix of it when the write fails part-way).  Its steps:
\* "ensure", the inline "mkdir" of the same directory, then "open".
writefile(args, kind, fls, mk, openOk, written) ==
    LET filename == lua_tostring(ValueAt(args, 1))
        content == lua_tostring(ValueAt(args, 2))
        kind1 == ensureWorkspaceDirectory(ensureWorkspaceDirectory(kind, mk), mk)
        r == Resolve(FullPath(filename.s), kind1)
        isOpen == r.ok /\ ~r.isDir /\ openOk
    IN  IF filename.null \/ content.null
        THEN [pushed |-> <<LBool(FALSE)>>, declared |-> 1,
              kind |-> kind, files |-> fls, opened |-> NoOpen,
              steps |-> <<>>, made |-> FALSE]
        ELSE IF ~isOpen
        THEN [pushed |-> <<LBool(FALSE)>>, declared |-> 1,
              kind |-> kind1, files |-> fls, opened |-> NoOpen,
              steps |-> <<"ensure", "mkdir", "open">>, made |-> Made(kind, kind1)]
        ELSE [pushed |-> <<LBool(TRUE)>>, declared |-> 1,
              kind |-> kind1,
              files |-> [p \in DOMAIN fls \cup {r.path} |->
                            IF p = r.path THEN written ELSE fls[p]],
              opened |-> Opened(r.path),
              steps |-> <<"ensure", "mkdir", "open">>, made |-> Made(kind, kind1)]

\* The bytes operator<<(const char*) can leave in the file
Writable(args) == Prefixes(CStr(lua_tostring(ValueAt(args, 2)).s))

-----------------------------------------------------------------------------
(* The bootstrap loader and the handler hook *)

\* What running a chunk does: it fails to compile (the loader pushes a
\* message), it raises an error value, or it returns rets.
CompileError == [kind |-> "compile_error", err |-> LStr(<<"e">>), rets |-> <<>>]
RuntimeError(v) == [kind |-> "runtime_error", err |-> v, rets |-> <<>>]
Returns(vs) == [kind |-> "returns", err |-> LNil, rets |-> vs]
NoBoot == [kind |-> "none", err |-> LNil, rets |-> <<>>]

Top(stk) == stk[Len(stk)]
Pop(stk) == SubSeq(stk, 1, Len(stk) - 1)

\* luaL_dostring: 1 with the message pushed on a compile error; otherwise
\* the status of lua_pcall(L, 0, LUA_MULTRET, 0), which pushes the error value
\* or every value the chunk returned.
luaL_dostring(stk, b) ==
    IF b.kind = "compile_error" THEN [status |-> 1, stack |-> stk \o <<b.err>>]
    ELSE IF b.kind = "runtime_error" THEN [status |-> 2, stack |-> stk \o <<b.err>>]
    ELSE [status |-> 0, stack |-> stk \o b.rets]

\* bool executeMainLuau(L, script).  exit is "return" when the function
\* returns ret, "throw" when an exception leaves it, "abort" when the process
\* dies in it.
\*   nullStr: what std::string(const char*) does with a null pointer in this
\*            build (undefined behaviour): "throw", "abort" or "continue";
\*   apiCheck: whether the interpreter was built with API checks, which abort
\*            on index -1 of an empty frame; without them the slot below the
\*            frame is read and popped.
executeMainLuau(stk, b, nullStr, apiCheck) ==
    LET d == luaL_dostring(stk, b)
        s == d.stack
        emptyFrame == Len(s) = 1
    IN  IF d.status # 0
        THEN IF lua_tostring(Top(s)).null /\ nullStr # "continue"
             THEN [exit |-> nullStr, ret |-> FALSE, stack |-> s]
             ELSE [exit |-> "return", ret |-> FALSE, stack |-> Pop(s)]
        ELSE IF emptyFrame /\ apiCheck
             THEN [exit |-> "abort", ret |-> FALSE, stack |-> s]
        ELSE IF ~lua_isfunction(Top(s))
             THEN [exit |-> "return", ret |-> FALSE, stack |-> Pop(s)]
        ELSE [exit |-> "return", ret |-> TRUE, stack |-> s]

\* luaL_ref(L, LUA_REGISTRYINDEX): pops the top value and stores it under a
\* fresh key (no key is ever freed in this library)
FreshKey(reg) == Cardinality(DOMAIN reg) + 1

luaL_ref(stk, reg) ==
    LET key == FreshKey(reg)
    IN  [key |-> key,
         stack |-> Pop(stk),
         registry |-> [k \in DOMAIN reg \cup {key} |->
                          IF k = key THEN Top(stk) ELSE reg[k]]]

\* A hook that forgets lua_pushvalue: luaL_ref consumes the caller's value
hookWithoutCopy(stk, reg) == luaL_ref(stk, reg)

\* hookPlayerAddedEvent: lua_pushvalue(L, -1); int functionRef = luaL_ref(...)
hookPlayerAddedEvent(stk, reg) == luaL_ref(stk \o <<Top(stk)>>, reg)

\* The order of the steps of luaopen_mylibrary: the position after `at`,
\* ok being what executeMainLuau returned
luaopen_next(at, ok) ==
    IF at = "ensure" THEN "register"
    ELSE IF at = "register" THEN "exec"
    ELSE IF at = "exec" THEN (IF ok THEN "hook" ELSE "return")
    ELSE IF at = "hook" THEN "return"
    ELSE "returned"

\* return 1;
luaopen_declared == 1

-----------------------------------------------------------------------------
(* Inputs *)

\* The function slot the host calls the library through
HostFun == LFun(0)

\* What the host has on the stack when it calls luaopen_mylibrary: nothing,
\* the module name (require), or any value it chose to pass
EntryValues == { LStr(<<"m">>), HostFun }
EntryStacks == UNION { [1..n -> EntryValues] : n \in 0..MaxEntry }

\* The values a bootstrap chunk returns; h is the closure this run creates
RetStacks(h) == UNION { [1..n -> { LFun(h), LNum(1) }] : n \in 0..MaxRets }

ErrorValues == { LStr(<<"e">>), LNum(3), LNil, LBool(FALSE), LTable }

BootOutcomes(h) ==
    {CompileError} \cup { RuntimeError(v) : v \in ErrorValues }
                   \cup { Returns(vs) : vs \in RetStacks(h) }

\* File names: the plain name "7" (also what the number 7 converts to), the
\* same name reached through "..", after a leading separator, and the empty
\* name, which is the workspace directory itself
PlainFile == <<"7">>
NameStrings == { PlainFile, <<DOT, DOT, SEP>> \o PlainFile, <<SEP>> \o PlainFile, <<>> }
NameValues == { LStr(s) : s \in NameStrings } \cup { LNum(7), LNil, LTable }
WriteNameValues == NameValues \ { LStr(<<>>), LTable }

ContentBytes == { "a", NUL }
ContentValues ==
    { LStr(s) : s \in StringsUpTo(ContentBytes, MaxLen) }
        \cup { LNum(1), LBool(FALSE) }

ReadArgs == { <<>> } \cup { <<v>> : v \in NameValues }
WriteArgs == { <<>>, <<LStr(PlainFile)>> }
                \cup { <<v, c>> : v \in WriteNameValues, c \in ContentValues }

\* What the environment can do to a call: refuse to create the directory
\* (only when it is absent), refuse to open the target, cut the write short
MkChoices(kind) == IF kind = "absent" THEN BOOLEAN ELSE { TRUE }

RegisteredNames == { "readfile", "writefile" }

EmptyFiles == [p \in {} |-> <<>>]
EmptyRegistry == [k \in {} |-> LNil]

NoCall == [fn |-> "none", args |-> <<>>, pushed |-> <<>>, declared |-> 0,
           results |-> <<>>, opened |-> NoOpen, steps |-> <<>>, made |-> FALSE,
           mk |-> TRUE]

-----------------------------------------------------------------------------
(* The load lifecycle: luaopen_mylibrary, step by step *)

Init ==
    /\ wsKind \in { "absent", "dir", "file" }
    /\ files = EmptyFiles
    /\ lastCall = NoCall
    /\ pc = "idle"
    /\ stack = <<>>
    /\ entryDepth = 0
    /\ globals = {}
    /\ registry = EmptyRegistry
    /\ functionRef = {}
    /\ boot = NoBoot
    /\ execOk = FALSE
    /\ events = <<>>
    /\ loads = 0

\* The host loads the library: it calls luaopen_mylibrary(L)
HostCallsLuaopen ==
    /\ pc \in { "idle", "returned" }
    /\ loads < MaxLoads
    /\ \E entry \in EntryStacks, b \in BootOutcomes(loads + 1) :
          /\ stack' = <<HostFun>> \o entry
          /\ entryDepth' = 1 + Len(entry)
          /\ boot' = b
    /\ pc' = "ensure"
    /\ execOk' = FALSE
    /\ functionRef' = {}
    /\ events' = <<>>
    /\ UNCHANGED <<wsKind, files, lastCall, globals, registry, loads>>

\* ensureWorkspaceDirectory();
EnsureStep ==
    /\ pc = "ensure"
    /\ \E mk \in MkChoices(wsKind) : wsKind' = ensureWorkspaceDirectory(wsKind, mk)
    /\ pc' = luaopen_next("ensure", FALSE)
    /\ events' = Append(events, "ensure")
    /\ UNCHANGED <<files, lastCall, stack, entryDepth, globals, registry,
                   functionRef, boot, execOk, loads>>

\* registerExecutorFunctions(L);
RegisterStep ==
    /\ pc = "register"
    /\ globals' = globals \cup RegisteredNames
    /\ pc' = luaopen_next("register", FALSE)
    /\ events' = Append(events, "register")
    /\ UNCHANGED <<wsKind, files, lastCall, stack, entryDepth, registry,
                   functionRef, boot, execOk, loads>>

\* executeMainLuau(L, mainLuauScript)
ExecStep ==
    /\ pc = "exec"
    /\ \E nullStr \in { "throw", "abort", "continue" }, apiCheck \in BOOLEAN :
          \E r \in { executeMainLuau(stack, boot, nullStr, apiCheck) } :
              /\ stack' = r.stack
              /\ execOk' = r.ret
              /\ pc' = IF r.exit = "return" THEN luaopen_next("exec", r.ret)
                       ELSE IF r.exit = "throw" THEN "thrown"
                       ELSE "aborted"
    /\ events' = Append(events, "bootstrap")
    /\ UNCHANGED <<wsKind, files, lastCall, entryDepth, globals, registry,
                   functionRef, boot, loads>>

\* hookPlayerAddedEvent(L);
HookStep ==
    /\ pc = "hook"
    /\ \E h \in { hookPlayerAddedEvent(stack, registry) } :
           /\ stack' = h.stack
           /\ registry' = h.registry
           /\ functionRef' = { h.key }
    /\ pc' = luaopen_next("hook", TRUE)
    /\ events' = Append(events, "adopt")
    /\ UNCHANGED <<wsKind, files, lastCall, entryDepth, globals, boot, execOk,
                   loads>>

\* return 1; the storage of the locals of the call is gone
ReturnStep ==
    /\ pc = "return"
    /\ pc' = luaopen_next("return", execOk)
    /\ functionRef' = {}
    /\ loads' = loads + 1
    /\ events' = Append(events, "return")
    /\ UNCHANGED <<wsKind, files, lastCall, stack, entryDepth, globals,
                   registry, boot, execOk>>

Next ==
    \/ HostCallsLuaopen
    \/ EnsureStep
    \/ RegisterStep
    \/ ExecStep
    \/ HookStep
    \/ ReturnStep

Spec == Init /\ [][Next]_vars

-----------------------------------------------------------------------------
(* The registered functions, called by scripts after a load *)

\* After a load whose bootstrap returned its handler; the workspace may have
\* been removed or replaced since, and files may be there from earlier runs.
InitFile ==
    /\ wsKind \in { "absent", "dir", "file" }
    /\ \E inWs \in BOOLEAN, inCwd \in BOOLEAN :
          files = [p \in { q \in { <<WorkspaceName, PlainFile>> } : inWs /\ wsKind = "dir" }
                         \cup { q \in { <<PlainFile>> } : inCwd } |-> <<"b">>]
    /\ lastCall = NoCall
    /\ pc = "returned"
    /\ stack = <<HostFun, LFun(1)>>
    /\ entryDepth = 1
    /\ globals = RegisteredNames
    /\ registry = [k \in {1} |-> LFun(1)]
    /\ functionRef = {}
    /\ boot = Returns(<<LFun(1)>>)
    /\ execOk = TRUE
    /\ events = <<"ensure", "register", "bootstrap", "adopt", "return">>
    /\ loads = 1

\* A script calls readfile(...)
Readfile ==
    /\ pc = "returned"
    /\ "readfile" \in globals
    /\ \E args \in ReadArgs, mk \in MkChoices(wsKind), dirOpens \in BOOLEAN :
          \E r \in { readfile(args, wsKind, files, mk, dirOpens) } :
              /\ wsKind' = r.kind
              /\ lastCall' = [fn |-> "readfile", args |-> args,
                              pushed |-> r.pushed, declared |-> readfileDeclared,
                              results |-> TopN(args \o r.pushed, readfileDeclared),
                              opened |-> r.opened, steps |-> r.steps,
                              made |-> r.made, mk |-> mk]
    /\ UNCHANGED <<files, loadVars>>

\* A script calls writefile(...)
Writefile ==
    /\ pc = "returned"
    /\ "writefile" \in globals
    /\ \E args \in WriteArgs, mk \in MkChoices(wsKind), openOk \in BOOLEAN :
       \E written \in Writable(args) :
          \E r \in { writefile(args, wsKind, files, mk, openOk, written) } :
              /\ wsKind' = r.kind
              /\ files' = r.files
              /\ lastCall' = [fn |-> "writefile", args |-> args,
                              pushed |-> r.pushed, declared |-> r.declared,
                              results |-> TopN(args \o r.pushed, r.declared),
                              opened |-> r.opened, steps |-> r.steps,
                              made |-> r.made, mk |-> mk]
    /\ UNCHANGED loadVars

\* Something outside the library removes the workspace directory
RemoveWorkspace ==
    /\ pc = "returned"
    /\ wsKind = "dir"
    /\ wsKind' = "absent"
    /\ files' = WithoutWorkspace(files)
    /\ lastCall' = [NoCall EXCEPT !.fn = "rmdir"]
    /\ UNCHANGED loadVars

NextFile ==
    \/ Readfile
    \/ Writefile
    \/ RemoveWorkspace

SpecFile == InitFile /\ [][NextFile]_vars

-----------------------------------------------------------------------------
(* Vocabulary of the properties *)

IsFileCall == lastCall.fn \in { "readfile", "writefile" }

\* The call took a failure path: it was a readfile that opened nothing
ReadFailed == lastCall.fn = "readfile" /\ ~lastCall.opened.any

\* A name without path separators that names an entry of the workspace
PlainName(v) ==
    /\ v.t = "string"
    /\ v.s # <<>>
    /\ v.s # <<DOT>>
    /\ v.s # DotDot
    /\ \A i \in 1..Len(v.s) : v.s[i] # SEP

\* The bootstrap of the current load completed and the value it returned (the
\* last one, at the top of the stack) is a callable
ReturnedCallable ==
    /\ boot.kind = "returns"
    /\ boot.rets # <<>>
    /\ lua_isfunction(Top(boot.rets))

\* The bootstrap of the current load failed: compile error, runtime error, or
\* no callable returned
BootFailed == boot.kind # "none" /\ ~ReturnedCallable

LoadEnded == pc \in { "returned", "thrown", "aborted" }

Adopted == \E i \in 1..Len(events) : events[i] = "adopt"

-----------------------------------------------------------------------------
(* Properties of the file functions, under SpecFile *)

\* C1: on every failure path of readfile the script receives exactly two
\* values, nil and a non-empty error string, and the function declares as
\* many return values as it pushed.
C1_ReadFailureYieldsNilAndMessage ==
    ReadFailed =>
        /\ Len(lastCall.results) = 2
        /\ lastCall.results[1] = LNil
        /\ lastCall.results[2].t = "string"
        /\ lastCall.results[2].s # <<>>
        /\ Len(lastCall.pushed) = lastCall.declared

\* C5: a writefile(k, s) that returned true, followed by readfile(k), returns
\* exactly s, for every byte string s and every plain name k.
C5_RoundTrip ==
    [][ ( /\ lastCall.fn = "writefile"
          /\ lastCall.results = <<LBool(TRUE)>>
          /\ PlainName(lastCall.args[1])
          /\ lastCall.args[2].t = "string"
          /\ lastCall'.fn = "readfile"
          /\ lastCall'.args = <<lastCall.args[1]>> )
        => lastCall'.results = <<lastCall.args[2]>> ]_vars

\* C6: writefile returns the single value false whenever its name or its
\* content is missing or is not a string.
C6_WritefileRejectsNonStrings ==
    ( /\ lastCall.fn = "writefile"
      /\ \/ ValueAt(lastCall.args, 1).t # "string"
         \/ ValueAt(lastCall.args, 2).t # "string" )
    => lastCall.results = <<LBool(FALSE)>>

\* C7: writefile returns true only when every byte of content is in the file
\* it opened, and false otherwise.
C7_TrueOnlyOnFullWrite ==
    lastCall.fn = "writefile" =>
        /\ lastCall.results \in { <<LBool(TRUE)>>, <<LBool(FALSE)>> }
        /\ lastCall.results = <<LBool(TRUE)>> =>
              /\ lastCall.opened.any
              /\ lastCall.opened.path \in DOMAIN files
              /\ files[lastCall.opened.path] = lua_tostring(lastCall.args[2]).s

\* C8: every file readfile or writefile opens lies inside the workspace
\* directory, whatever the name.
C8_PathConfinement ==
    (IsFileCall /\ lastCall.opened.any) => Inside(lastCall.opened.path)

-----------------------------------------------------------------------------
(* Properties of the load lifecycle, under Spec *)

\* C2: after luaopen_mylibrary returns, the stack is as deep as on entry plus
\* the return count it declares.
C2_StackNeutralLoad ==
    pc = "returned" => Len(stack) = entryDepth + luaopen_declared

\* C3: after a load whose bootstrap returned a callable, native state that
\* outlives the call holds the registry key of that callable.
C3_HandlerKeyRetained ==
    (pc = "returned" /\ ReturnedCallable) =>
        \E key \in functionRef :
            /\ key \in DOMAIN registry
            /\ registry[key] = Top(boot.rets)

\* C4: whatever way the bootstrap fails, luaopen_mylibrary returns normally,
\* readfile and writefile are registered and no handler reference is stored.
C4_GracefulBootstrapFailure ==
    (LoadEnded /\ BootFailed) =>
        /\ pc = "returned"
        /\ RegisteredNames \subseteq globals
        /\ ~Adopted

\* C9: across successive loads the registry holds at most one handler
\* reference of this library.
C9_AtMostOneHandlerReference ==
    Cardinality(DOMAIN registry) <= 1

\* C10: the functions are registered before the bootstrap runs, and the
\* handler is adopted only after a bootstrap that returned a callable.
C10_LoadOrdering ==
    \A i \in 1..Len(events) :
        /\ events[i] = "bootstrap" =>
              /\ RegisteredNames \subseteq globals
              /\ \E j \in 1..(i - 1) : events[j] = "register"
        /\ events[i] = "adopt" =>
              /\ ReturnedCallable
              /\ \E j \in 1..(i - 1) : events[j] = "bootstrap"


\* The state right after executeMainLuau returned to luaopen_mylibrary
ExecReturned ==
    /\ pc \in { "hook", "return" }
    /\ events # <<>>
    /\ events[Len(events)] = "bootstrap"

\* C11 as stated: after a successful load (the bootstrap returned a callable
\* and it was adopted) the stack is as deep as on entry.
C11_DepthAsOnEntry ==
    (pc = "returned" /\ Adopted /\ ReturnedCallable) => Len(stack) = entryDepth

\* C11 amended: after a load that adopted a handler, the stack holds, above
\* the entry depth, exactly the values the bootstrap chunk returned (one, the
\* callable, for a chunk that returns just its handler).
C11_DepthIsEntryPlusReturned ==
    (pc = "returned" /\ Adopted) => Len(stack) = entryDepth + Len(boot.rets)

\* A load of a chunk returning just its handler has returned, handler adopted
C11_Witness ==
    /\ pc = "returned"
    /\ Adopted
    /\ ReturnedCallable
    /\ Len(boot.rets) = 1
    /\ Len(stack) = entryDepth + 1

\* C13: executeMainLuau never removes a slot present at its entry: when it
\* returns false the depth is the entry depth, when it returns true exactly
\* one value, the callable, was added; whatever number of values the chunk
\* returns.
C13_ExecKeepsEntrySlots ==
    ExecReturned =>
        /\ Len(stack) >= entryDepth
        /\ ~execOk => Len(stack) = entryDepth
        /\ execOk => /\ Len(stack) = entryDepth + 1
                     /\ lua_isfunction(Top(stack))


\* C12: in every readfile or writefile call that reaches the point of opening
\* a file, ensureWorkspaceDirectory ran earlier in that same call; so a file
\* is only ever opened with the workspace directory in place, also when it
\* was removed since the previous call.
C12_EnsureBeforeOpen ==
    IsFileCall =>
        /\ \A j \in 1..Len(lastCall.steps) :
              lastCall.steps[j] = "open" =>
                  \E i \in 1..(j - 1) : lastCall.steps[i] = "ensure"
        /\ lastCall.opened.any => wsKind = "dir"

\* A writefile found the workspace missing, created it and opened its file
C12_Witness ==
    /\ lastCall.fn = "writefile"
    /\ lastCall.made
    /\ lastCall.opened.any
    /\ \E j \in 1..Len(lastCall.steps) : lastCall.steps[j] = "open"


\* The paths whose file differs between two file tables: created, removed or
\* holding other bytes
Changed(before, after) ==
    { p \in DOMAIN before \cup DOMAIN after :
         \/ p \notin DOMAIN before
         \/ p \notin DOMAIN after
         \/ before[p] # after[p] }

\* The file workspace/<name> of a call: where that path leads
TargetOf(args) == Resolve(FullPath(lua_tostring(ValueAt(args, 1)).s), "dir").path

\* The call was refused for its arguments: one of them is no string to the
\* interpreter
RefusedArgs(args) ==
    \/ lua_tostring(ValueAt(args, 1)).null
    \/ lua_tostring(ValueAt(args, 2)).null

\* C14: readfile changes no file and creates none; writefile changes at most
\* the one file workspace/<name>; a writefile refused for an invalid argument
\* changes nothing on disk, the workspace directory included.
C14_FrameOfFileFunctions ==
    [][ /\ lastCall'.fn = "readfile" => files' = files
        /\ lastCall'.fn = "writefile" =>
              Changed(files, files') \subseteq { TargetOf(lastCall'.args) }
        /\ ( /\ lastCall'.fn = "writefile"
             /\ RefusedArgs(lastCall'.args) )
           => /\ lastCall'.results = <<LBool(FALSE)>>
              /\ files' = files
              /\ wsKind' = wsKind ]_vars

\* A writefile wrote its file while another file, outside its target, keeps
\* the bytes it had
C14_Witness ==
    /\ lastCall.fn = "writefile"
    /\ lastCall.opened.any
    /\ lastCall.opened.path = TargetOf(lastCall.args)
    /\ \E p \in DOMAIN files : p # lastCall.opened.path /\ files[p] = <<"b">>


-----------------------------------------------------------------------------
(* ensureWorkspaceDirectory called several times in a row, under SpecEnsure *)

\* Recreating the workspace instead of ensuring it: rm -rf, then mkdir
ensureRecreate(kind, fls, mk) ==
    [kind |-> IF mk THEN "dir" ELSE kind,
     files |-> IF mk THEN WithoutWorkspace(fls) ELSE fls,
     ok |-> mk]

\* The whole effect of ensureWorkspaceDirectory on the disk, and the status
\* of its mkdir -p (which the code ignores): 0, ok, exactly when the
\* directory is there afterwards
ensureWorkspace(kind, fls, mk) ==
    [kind |-> ensureWorkspaceDirectory(kind, mk),
     files |-> fls,
     ok |-> ensureWorkspaceDirectory(kind, mk) = "dir"]

InitContents == StringsUpTo(ContentBytes, MaxLen) \cup { <<"b">> }

\* Any disk: the workspace absent, a directory or a file; a file in the
\* workspace and one beside it, each there or not, with any content
InitEnsure ==
    /\ wsKind \in { "absent", "dir", "file" }
    /\ \E inWs \in BOOLEAN, inCwd \in BOOLEAN :
       \E wsBytes \in InitContents, cwdBytes \in InitContents :
          files = [p \in { q \in { <<WorkspaceName, PlainFile>> } : inWs /\ wsKind = "dir" }
                         \cup { q \in { <<PlainFile>> } : inCwd } |->
                      IF p = <<PlainFile>> THEN cwdBytes ELSE wsBytes]
    /\ lastCall = NoCall
    /\ pc = "returned"
    /\ stack = <<HostFun, LFun(1)>>
    /\ entryDepth = 1
    /\ globals = RegisteredNames
    /\ registry = [k \in {1} |-> LFun(1)]
    /\ functionRef = {}
    /\ boot = Returns(<<LFun(1)>>)
    /\ execOk = TRUE
    /\ events = <<"ensure", "register", "bootstrap", "adopt", "return">>
    /\ loads = 1

\* ensureWorkspaceDirectory() is called, the first time or once more in a
\* row: nothing else touches the disk in between, and the working directory
\* allows or refuses the mkdir as it did at the first call
Ensure ==
    /\ pc = "returned"
    /\ Len(lastCall.steps) < MaxCalls
    /\ \E mk \in (IF lastCall.fn = "ensure" THEN { lastCall.mk } ELSE BOOLEAN) :
       \E r \in { ensureWorkspace(wsKind, files, mk) } :
          /\ wsKind' = r.kind
          /\ files' = r.files
          /\ lastCall' = [NoCall EXCEPT !.fn = "ensure",
                                        !.results = <<LBool(r.ok)>>,
                                        !.steps = Append(lastCall.steps, "ensure"),
                                        !.made = Made(wsKind, r.kind),
                                        !.mk = mk]
    /\ UNCHANGED loadVars

NextEnsure == Ensure

SpecEnsure == InitEnsure /\ [][NextEnsure]_vars

\* C15: calling ensureWorkspaceDirectory again in a row changes nothing any
\* more (N calls leave the disk as one call does); a call never fails when
\* the workspace is already a directory; and no call changes a file.
C15_EnsureIdempotent ==
    [][ lastCall'.fn = "ensure" =>
          /\ files' = files
          /\ lastCall.fn = "ensure" => wsKind' = wsKind
          /\ wsKind = "dir" => /\ wsKind' = "dir"
                               /\ lastCall'.results = <<LBool(TRUE)>> ]_vars

\* ensure was called at least twice in a row with files in the workspace
C15_Witness ==
    /\ lastCall.fn = "ensure"
    /\ Len(lastCall.steps) >= 2
    /\ wsKind = "dir"
    /\ \E p \in DOMAIN files : Inside(p)

====
